---- MODULE Spec2Model ----
(***************************************************************************)
(* Model of the FreightView quote analysis handler                         *)
(* (GET /api/requests/:id/analysis) and of the helpers it calls.           *)
(*                                                                         *)
(* The handler reads one shipment request with its quotes, computes the    *)
(* best quote per mode, the savings, a recommendation and the timeline     *)
(* flexibility, and answers with a JSON payload.  JavaScript numbers are   *)
(* IEEE-754 doubles: the quotient and the product of the savings           *)
(* percentage are computed here bit by bit with round-to-nearest-even, so  *)
(* that Math.round sees the value the handler sees.                        *)
(***************************************************************************)
EXTENDS Integers, Sequences, FiniteSets, Bags, TLC

(***************************************************************************)
(* JavaScript values                                                       *)
(***************************************************************************)
Null == [t |-> "null"]

Num(n) == [t |-> "num", v |-> n]

NaN == [t |-> "NaN"]

Infinity(neg) == [t |-> "Infinity", neg |-> neg]

(***************************************************************************)
(* Binary naturals, most significant bit first                             *)
(***************************************************************************)
Abs(n) == IF n < 0 THEN -n ELSE n

Zeros(n) == [i \in 1..n |-> 0]

RECURSIVE NatToBits(_)
NatToBits(n) == IF n = 0 THEN << >> ELSE Append(NatToBits(n \div 2), n % 2)

RECURSIVE BitsToNatAcc(_, _, _)
BitsToNatAcc(b, i, acc) ==
  IF i > Len(b) THEN acc ELSE BitsToNatAcc(b, i + 1, 2 * acc + b[i])

BitsToNat(b) == BitsToNatAcc(b, 1, 0)

RECURSIVE StripLeadingZeros(_)
StripLeadingZeros(b) ==
  IF b = << >> \/ b[1] = 1 THEN b ELSE StripLeadingZeros(Tail(b))

AnyOne(b) == \E i \in 1..Len(b) : b[i] = 1

\* b + 1
IncBits(b) ==
  LET zs == {i \in 1..Len(b) : b[i] = 0}
  IN IF zs = {} THEN <<1>> \o Zeros(Len(b))
     ELSE LET k == CHOOSE i \in zs : \A j \in zs : j <= i
          IN [i \in 1..Len(b) |-> IF i < k THEN b[i] ELSE IF i = k THEN 1 ELSE 0]

\* Long multiplication and division work on limbs of LimbBits bits, so that
\* every intermediate value stays a machine integer for small operands
\* (below 2^20)
LimbBits == 10

LimbBase == 2^LimbBits

ToLimbs(b) ==
  LET n   == (Len(b) + LimbBits - 1) \div LimbBits
      pad == Zeros(n * LimbBits - Len(b)) \o b
  IN [j \in 1..n |-> BitsToNat(SubSeq(pad, (j - 1) * LimbBits + 1, j * LimbBits))]

FromLimbs(l) ==
  [i \in 1..(Len(l) * LimbBits) |->
     (l[(i - 1) \div LimbBits + 1] \div 2^(LimbBits - 1 - ((i - 1) % LimbBits))) % 2]

\* l * k, from the low limb up
RECURSIVE MulLimbs(_, _, _, _)
MulLimbs(l, k, i, carry) ==
  IF i = 0 THEN <<carry \div LimbBase, carry % LimbBase>>
  ELSE Append(MulLimbs(l, k, i - 1, (l[i] * k + carry) \div LimbBase),
              (l[i] * k + carry) % LimbBase)

\* b * k for a small natural k
MulBits(b, k) ==
  LET l == ToLimbs(b)
  IN StripLeadingZeros(FromLimbs(MulLimbs(l, k, Len(l), 0)))

\* l divided by d, from the high limb down: the limbs of the quotient,
\* followed by the remainder
RECURSIVE DivLimbs(_, _, _, _)
DivLimbs(l, d, i, r) ==
  IF i > Len(l) THEN <<r>>
  ELSE <<(r * LimbBase + l[i]) \div d>>
         \o DivLimbs(l, d, i + 1, (r * LimbBase + l[i]) % d)

\* b divided by a small positive d: the quotient followed by one sticky
\* bit, 1 when the remainder is not zero
DivBits(b, d) ==
  LET l  == ToLimbs(b)
      qr == DivLimbs(l, d, 1, 0)
  IN StripLeadingZeros(FromLimbs(SubSeq(qr, 1, Len(l)))
                         \o <<IF qr[Len(qr)] = 0 THEN 0 ELSE 1>>)

(***************************************************************************)
(* IEEE-754 binary64 values: zero, or (-1)^neg * m * 2^e with m a binary   *)
(* natural of at most MantissaBits bits, or NaN, or an infinity.           *)
(* Exponent overflow and subnormals are out of reach of the amounts that   *)
(* a DECIMAL(12,2) column holds and are not modelled.                      *)
(***************************************************************************)
MantissaBits == 53

DZero == [k |-> "zero"]

DNaN == [k |-> "nan"]

DInf(neg) == [k |-> "inf", neg |-> neg]

DFin(neg, m, e) == [k |-> "fin", neg |-> neg, m |-> m, e |-> e]

\* an integer as a double (exact below 2^53)
ToDouble(n) == IF n = 0 THEN DZero ELSE DFin(n < 0, NatToBits(Abs(n)), 0)

\* round-to-nearest, ties-to-even, of the natural b * 2^e to MantissaBits
\* significant bits
RoundToDouble(neg, b, e) ==
  IF Len(b) <= MantissaBits THEN DFin(neg, b, e)
  ELSE LET keep  == SubSeq(b, 1, MantissaBits)
           guard == b[MantissaBits + 1]
           rest  == AnyOne(SubSeq(b, MantissaBits + 2, Len(b)))
           up    == guard = 1 /\ (rest \/ keep[MantissaBits] = 1)
           m     == IF up THEN IncBits(keep) ELSE keep
           drop  == Len(b) - MantissaBits
       IN IF Len(m) > MantissaBits
          THEN DFin(neg, SubSeq(m, 1, MantissaBits), e + drop + 1)
          ELSE DFin(neg, m, e + drop)

\* x / d in double arithmetic, d an integer-valued double
DoubleDiv(x, d) ==
  IF x.k = "nan" THEN DNaN
  ELSE IF d = 0 THEN (IF x.k = "zero" THEN DNaN ELSE DInf(x.neg))
  ELSE IF x.k = "inf" THEN DInf(x.neg # (d < 0))
  ELSE IF x.k = "zero" THEN DZero
  ELSE LET dbits == Len(NatToBits(Abs(d)))
           \* zeros appended to the dividend: the quotient then has at least
           \* MantissaBits + 1 bits before its sticky bit
           shift == IF MantissaBits + 2 + dbits > Len(x.m)
                    THEN MantissaBits + 2 + dbits - Len(x.m) ELSE 0
       IN RoundToDouble(x.neg # (d < 0),
                        DivBits(x.m \o Zeros(shift), Abs(d)),
                        x.e - shift - 1)

\* x * k in double arithmetic, k an integer-valued double
DoubleMul(x, k) ==
  IF x.k = "nan" THEN DNaN
  ELSE IF x.k = "inf" THEN (IF k = 0 THEN DNaN ELSE DInf(x.neg # (k < 0)))
  ELSE IF x.k = "zero" \/ k = 0 THEN DZero
  ELSE RoundToDouble(x.neg # (k < 0), MulBits(x.m, Abs(k)), x.e)

\* Math.trunc in the place of Math.round
MathTrunc(x) ==
  IF x.k = "nan" THEN NaN
  ELSE IF x.k = "inf" THEN Infinity(x.neg)
  ELSE IF x.k = "zero" THEN Num(0)
  ELSE IF x.e >= 0 THEN
         LET n == BitsToNat(x.m \o Zeros(x.e))
         IN Num(IF x.neg THEN -n ELSE n)
  ELSE LET fl  == -x.e
           ip  == IF Len(x.m) <= fl THEN 0
                  ELSE BitsToNat(SubSeq(x.m, 1, Len(x.m) - fl))
       IN Num(IF x.neg THEN -ip ELSE ip)

\* Math.round: the integer nearest to x, a tie going toward +Infinity
MathRound(x) ==
  IF x.k = "nan" THEN NaN
  ELSE IF x.k = "inf" THEN Infinity(x.neg)
  ELSE IF x.k = "zero" THEN Num(0)
  ELSE IF x.e >= 0 THEN
         LET n == BitsToNat(x.m \o Zeros(x.e))
         IN Num(IF x.neg THEN -n ELSE n)
  ELSE LET fl   == -x.e
           pad  == IF Len(x.m) < fl THEN Zeros(fl - Len(x.m)) \o x.m ELSE x.m
           ip   == BitsToNat(SubSeq(pad, 1, Len(pad) - fl))
           frac == SubSeq(pad, Len(pad) - fl + 1, Len(pad))
           half == frac[1] = 1
           more == AnyOne(Tail(frac))
       IN IF x.neg
          THEN Num(IF half /\ more THEN -(ip + 1) ELSE -ip)
          ELSE Num(IF half THEN ip + 1 ELSE ip)

(***************************************************************************)
(* Bounds of the model                                                     *)
(***************************************************************************)
\* the longest list of quotes loaded for one request
MaxQuotes == 3

(***************************************************************************)
(* Data: rows of the requests and quotes tables as the handler reads them  *)
(***************************************************************************)
Str(s) == [t |-> "str", s |-> s]

\* a DATE column value 'YYYY-MM-DD', kept as its day number
Date(d) == [t |-> "date", day |-> d]

\* a DATE column also holds the special value 'infinity', which the data
\* source delivers as the string "infinity": a string that is not a date
DateInfinity == [t |-> "infinity"]

Users == {"u1", "u2"}

\* supabase.auth.getUser(): a signed-in user, or nobody
Callers == Users \cup {"anonymous"}

\* the joined row of the forwarders table: short_code is NOT NULL, and may
\* be the empty string
Forwarder(code) == [short_code |-> code]

AirAmounts == {0, 200, 12000}

SeaAmounts == {0, 171, 205, 3000}

AirEtas == {Date(12)}

SeaEtas == {Null, Date(25), Date(28)}

DeliveryDates == {Null, Date(27), Date(28), Date(30)}

CargoReadyDates == {Null, Date(5), Date(16), Date(17), Date(31)}

\* quotes.mode is CHECKed to be 'air' or 'sea', total_amount is any DECIMAL
QuoteRows ==
  [mode : {"air"}, total_amount : AirAmounts, eta : AirEtas,
   status : {"active"}, forwarder : {Forwarder("DHL")}, transit_days : {Num(3)}]
    \cup [mode : {"sea"}, total_amount : SeaAmounts, eta : SeaEtas,
          status : {"active"}, forwarder : {Forwarder("MSK")},
          transit_days : {Num(30)}]

\* every cargo_ready_date with the latest deadline, and every deadline with
\* the earliest cargo_ready_date
RequestRows ==
  [user_id : {"u1"},
   cargo_ready_date : CargoReadyDates,
   delivery_required_date : {Date(30)},
   value_usd : {Null}]
    \cup [user_id : {"u1"},
          cargo_ready_date : {Date(5)},
          delivery_required_date : DeliveryDates,
          value_usd : {Null}]

\* Rows with everything the columns admit: a negative total_amount (the
\* column has no CHECK), the date 'infinity', every status, a quote without
\* a forwarder (forwarder_id is nullable) or without transit_days
StoredQuoteRows ==
  [mode : {"air"}, total_amount : {-50, 200}, eta : {Date(12)},
   status : {"declined"}, forwarder : {Forwarder("DHL")},
   transit_days : {Num(3)}]
    \cup [mode : {"sea"}, total_amount : {-80, 171},
          eta : {Date(25), DateInfinity},
          status : {"expired"}, forwarder : {Null}, transit_days : {Null}]
    \cup [mode : {"sea"}, total_amount : {300}, eta : {Null},
          status : {"selected"}, forwarder : {Forwarder(""), Forwarder("MSK")},
          transit_days : {Num(30)}]

\* 3650 * 0.15 / 365 is one and a half
StoredRequestRows ==
  [user_id : {"u1"},
   cargo_ready_date : {Date(5), DateInfinity},
   delivery_required_date : {Null, Date(28), DateInfinity},
   value_usd : {Null, Num(0), Num(3650)}]

\* A few rows with calendar dates, for the properties that compare the
\* answers to every ordering of the quotes
FewQuoteRows ==
  [mode : {"air"}, total_amount : {200, 12000}, eta : {Date(12)},
   status : {"active"}, forwarder : {Forwarder("DHL")}, transit_days : {Num(3)}]
    \cup [mode : {"sea"}, total_amount : {171, 3000}, eta : {Date(25), Date(28)},
          status : {"active"}, forwarder : {Forwarder("MSK")},
          transit_days : {Num(30)}]

FewRequestRows ==
  [user_id : {"u1"},
   cargo_ready_date : {Date(5)},
   delivery_required_date : {Null, Date(27)},
   value_usd : {Null}]

\* Rows as the handler takes them from the answer of the data source, which
\* it casts and does not check (line 328): the filters of the handler have a
\* case for a mode that is neither 'air' nor 'sea'
UncheckedQuoteRows ==
  [mode : {"air", "sea", "rail"}, total_amount : {100, 200}, eta : {Date(25)},
   status : {"active", "expired"}, forwarder : {Forwarder("DHL")},
   transit_days : {Num(7)}]

UncheckedRequestRows ==
  [user_id : {"u1"},
   cargo_ready_date : {Date(5)},
   delivery_required_date : {Null, Date(28)},
   value_usd : {Null}]

\* the quotes of one request, in the order the data source delivers them;
\* rows of a table are pairwise different
ListsOf(rows) ==
  UNION {{s \in [1..n -> rows] : \A i, j \in 1..n : s[i] = s[j] => i = j}
           : n \in 0..MaxQuotes}

QuoteLists == ListsOf(QuoteRows)

(***************************************************************************)
(* State                                                                   *)
(***************************************************************************)
VARIABLES
  caller,            \* who sent the call answered last, "nobody" before one is
  shipmentRequest,   \* the row of the requests table with the given id,
                     \* Null when there is none
  quotes,            \* its rows of the quotes table
  response,          \* the answer of the handler, Null before the call
  selects,           \* the number of queries the handler has sent
  loaded,            \* the array of quotes the handler worked on, as it was
                     \* when loaded and as it is after the call
  page,              \* the state of the quote-comparison page: loading, data
  calls,             \* the calls of PATCH and POST in flight, with what each
                     \* has read and its answer
  userForwarders     \* the rows of the user_forwarders table

vars == <<caller, shipmentRequest, quotes, response, selects, loaded, page,
          calls, userForwarders>>

(***************************************************************************)
(* Helpers of the handler                                                  *)
(***************************************************************************)
\* new Date(s).getTime() of a date-only string is UTC midnight of that day,
\* and NaN when the string is not a date.
\* The time is kept in seconds: a DATE has no smaller part.
SecondsPerDay == 60 * 60 * 24

GetTime(d) == IF d.t = "date" THEN Num(d.day * SecondsPerDay) ELSE NaN

\* a <= b and a >= b on numbers: false when one of them is NaN
LessEq(a, b) == a.t = "num" /\ b.t = "num" /\ a.v <= b.v

\* a > b in the place of a >= b
GreaterThan(a, b) == a.t = "num" /\ b.t = "num" /\ a.v > b.v

GreaterEq(a, b) == a.t = "num" /\ b.t = "num" /\ a.v >= b.v

\* Math.ceil(x / d) for integers x and d > 0
MathCeilDiv(x, d) == -((-x) \div d)

\* Math.ceil((a.getTime() - b.getTime()) / (1000 * 60 * 60 * 24))
CeilDays(a, b) ==
  IF GetTime(a).t = "num" /\ GetTime(b).t = "num"
  THEN Num(MathCeilDiv(GetTime(a).v - GetTime(b).v, SecondsPerDay))
  ELSE NaN

\* Number.prototype.toLocaleString
ToLocaleString(x) == [t |-> "localeString", of |-> x]

\* a serialiser that writes every number as it is
JSONNumberVerbatim(x) == x

\* JSON.stringify of a number: NaN and the infinities are written as null
JSONNumber(x) == IF x.t \in {"NaN", "Infinity"} THEN Null ELSE x

\* Array.prototype.sort((a, b) => a.total_amount - b.total_amount), which is
\* stable: an element goes behind the elements that are not greater
\* the comparator written the wrong way round, (a, b) => b - a
RECURSIVE InsertByAmountDescending(_, _)
InsertByAmountDescending(q, sorted) ==
  IF sorted = << >> THEN <<q>>
  ELSE IF q.total_amount - sorted[1].total_amount <= 0
       THEN <<sorted[1]>> \o InsertByAmountDescending(q, Tail(sorted))
       ELSE <<q>> \o sorted

RECURSIVE InsertByAmount(_, _)
InsertByAmount(q, sorted) ==
  IF sorted = << >> THEN <<q>>
  ELSE IF sorted[1].total_amount - q.total_amount <= 0
       THEN <<sorted[1]>> \o InsertByAmount(q, Tail(sorted))
       ELSE <<q>> \o sorted

\* a sort that takes the elements from the last one to the first one, and
\* so turns round the elements it finds equal
RECURSIVE SortByAmountFromLast(_, _)
SortByAmountFromLast(s, n) ==
  IF n = 0 THEN << >>
  ELSE InsertByAmount(s[Len(s) - n + 1], SortByAmountFromLast(s, n - 1))

RECURSIVE SortByAmountUpTo(_, _)
SortByAmountUpTo(s, n) ==
  IF n = 0 THEN << >> ELSE InsertByAmount(s[n], SortByAmountUpTo(s, n - 1))

SortByAmount(s) == SortByAmountUpTo(s, Len(s))

IsAir(q) == q.mode = "air"

\* a filter that also drops the quotes that are not active
IsSeaAndActive(q) == q.mode = "sea" /\ q.status = "active"

IsSea(q) == q.mode = "sea"

\* The arrays of the handler.  Array.prototype.filter answers a new array
\* and leaves its receiver alone; Array.prototype.sort sorts its receiver in
\* place.
Arrays(qs) == [quotes |-> qs, airQuotes |-> << >>, seaQuotes |-> << >>]

\* quotes.filter(q => q.mode === 'air')
FilterAir(arrays, from, to) ==
  [arrays EXCEPT ![to] = SelectSeq(arrays[from], IsAir)]

\* quotes.filter(q => q.mode === 'sea')
FilterSea(arrays, from, to) ==
  [arrays EXCEPT ![to] = SelectSeq(arrays[from], IsSea)]

\* the partitions left in the order of the input
SortNothing(arrays, a) == arrays

Sort(arrays, a) == [arrays EXCEPT ![a] = SortByAmount(arrays[a])]

\* quotes.sort(...) once, before the two filters
PartitionAndSortInPlace(qs) ==
  FilterSea(FilterAir(Sort(Arrays(qs), "quotes"), "quotes", "airQuotes"),
            "quotes", "seaQuotes")

\* quotes.filter(...).sort(...), for air and then for sea
PartitionAndSort(qs) ==
  Sort(FilterSea(Sort(FilterAir(Arrays(qs), "quotes", "airQuotes"),
                      "airQuotes"),
                 "quotes", "seaQuotes"),
       "seaQuotes")

airQuotes(qs) == PartitionAndSort(qs).airQuotes

seaQuotes(qs) == PartitionAndSort(qs).seaQuotes

\* sorted[0] || null
First(sorted) == IF sorted = << >> THEN Null ELSE sorted[1]

bestAir(qs) == First(airQuotes(qs))

bestSea(qs) == First(seaQuotes(qs))

\* the operands of the difference exchanged
potentialSavingsSwapped(air, sea) ==
  IF air # Null /\ sea # Null
  THEN Num(sea.total_amount - air.total_amount)
  ELSE Null

potentialSavings(air, sea) ==
  IF air # Null /\ sea # Null
  THEN Num(air.total_amount - sea.total_amount)
  ELSE Null

savingsPercentage(air, sea) ==
  IF air # Null /\ sea # Null
  THEN MathRound(DoubleMul(
         DoubleDiv(ToDouble(air.total_amount - sea.total_amount),
                   air.total_amount), 100))
  ELSE Null

OnlySea == "Only sea freight quotes available."

OnlyAir == "Only air freight quotes available."

ArrivesBefore ==
  "Sea freight arrives {bufferDays} days before deadline with {savingsPercentage}% cost savings (${potentialSavings})"

MinimalBuffer ==
  "Sea freight meets deadline with minimal buffer ({bufferDays} days). Consider air if timing is critical."

MissesDeadline ==
  "Sea freight does not meet delivery deadline. Air freight required."

\* a template literal with the values put into its holes
Text(s, args) == [t |-> "str", s |-> s, args |-> args]

\* the threshold one day too low
SafeBufferDaysOffByOne == 3 - 1

\* the buffer from which sea freight is recommended without a warning
SafeBufferDays == 3

NoRecommendation == [recommendation |-> Null, recommendationReason |-> Null]

\* the comparison of the two dates turned round
MeetsDeadlineReversed(sea, deliveryRequiredDate) ==
  sea.eta # Null /\ GreaterEq(GetTime(sea.eta), GetTime(deliveryRequiredDate))

\* seaEta && seaEta <= requiredDate
MeetsDeadline(sea, deliveryRequiredDate) ==
  sea.eta # Null /\ LessEq(GetTime(sea.eta), GetTime(deliveryRequiredDate))

\* a missing deadline taken for a missed one
calculateRecommendationNoDeadlineAir(air, sea, deliveryRequiredDate, pct, savings) ==
  IF air = Null /\ sea = Null THEN NoRecommendation
  ELSE IF sea # Null /\ air = Null
  THEN [recommendation |-> Str("sea"),
        recommendationReason |-> Text(OnlySea, << >>)]
  ELSE IF air # Null /\ sea = Null
  THEN [recommendation |-> Str("air"),
        recommendationReason |-> Text(OnlyAir, << >>)]
  ELSE IF deliveryRequiredDate # Null /\ MeetsDeadline(sea, deliveryRequiredDate)
       THEN LET bufferDays == CeilDays(deliveryRequiredDate, sea.eta)
            IN IF GreaterEq(bufferDays, Num(SafeBufferDays))
               THEN [recommendation |-> Str("sea"),
                     recommendationReason |->
                       Text(ArrivesBefore,
                            <<bufferDays, pct, ToLocaleString(savings)>>)]
               ELSE IF GreaterEq(bufferDays, Num(0))
               THEN [recommendation |-> Str("sea"),
                     recommendationReason |->
                       Text(MinimalBuffer, <<bufferDays>>)]
               ELSE NoRecommendation
       ELSE [recommendation |-> Str("air"),
             recommendationReason |-> Text(MissesDeadline, << >>)]

\* the two single-mode answers exchanged
calculateRecommendationModesSwapped(air, sea, deliveryRequiredDate, pct, savings) ==
  IF air = Null /\ sea = Null THEN NoRecommendation
  ELSE IF sea # Null /\ air = Null
  THEN [recommendation |-> Str("air"),
        recommendationReason |-> Text(OnlyAir, << >>)]
  ELSE IF air # Null /\ sea = Null
  THEN [recommendation |-> Str("sea"),
        recommendationReason |-> Text(OnlySea, << >>)]
  ELSE IF air # Null /\ sea # Null /\ deliveryRequiredDate # Null
  THEN IF MeetsDeadline(sea, deliveryRequiredDate)
       THEN LET bufferDays == CeilDays(deliveryRequiredDate, sea.eta)
            IN IF GreaterEq(bufferDays, Num(SafeBufferDays))
               THEN [recommendation |-> Str("sea"),
                     recommendationReason |->
                       Text(ArrivesBefore,
                            <<bufferDays, pct, ToLocaleString(savings)>>)]
               ELSE IF GreaterEq(bufferDays, Num(0))
               THEN [recommendation |-> Str("sea"),
                     recommendationReason |->
                       Text(MinimalBuffer, <<bufferDays>>)]
               ELSE NoRecommendation
       ELSE [recommendation |-> Str("air"),
             recommendationReason |-> Text(MissesDeadline, << >>)]
  ELSE NoRecommendation

\* air recommended whenever the sea quote saves nothing
calculateRecommendationBySavings(air, sea, deliveryRequiredDate, pct, savings) ==
  IF air = Null /\ sea = Null THEN NoRecommendation
  ELSE IF air # Null /\ sea # Null /\ savings.v <= 0
  THEN [recommendation |-> Str("air"),
        recommendationReason |-> Text(MissesDeadline, << >>)]
  ELSE IF sea # Null /\ air = Null
  THEN [recommendation |-> Str("sea"),
        recommendationReason |-> Text(OnlySea, << >>)]
  ELSE IF air # Null /\ sea = Null
  THEN [recommendation |-> Str("air"),
        recommendationReason |-> Text(OnlyAir, << >>)]
  ELSE IF air # Null /\ sea # Null /\ deliveryRequiredDate # Null
  THEN IF MeetsDeadline(sea, deliveryRequiredDate)
       THEN LET bufferDays == CeilDays(deliveryRequiredDate, sea.eta)
            IN IF GreaterEq(bufferDays, Num(SafeBufferDays))
               THEN [recommendation |-> Str("sea"),
                     recommendationReason |->
                       Text(ArrivesBefore,
                            <<bufferDays, pct, ToLocaleString(savings)>>)]
               ELSE IF GreaterEq(bufferDays, Num(0))
               THEN [recommendation |-> Str("sea"),
                     recommendationReason |->
                       Text(MinimalBuffer, <<bufferDays>>)]
               ELSE NoRecommendation
       ELSE [recommendation |-> Str("air"),
             recommendationReason |-> Text(MissesDeadline, << >>)]
  ELSE NoRecommendation

calculateRecommendation(air, sea, deliveryRequiredDate, pct, savings) ==
  IF air = Null /\ sea = Null THEN NoRecommendation
  ELSE IF sea # Null /\ air = Null
  THEN [recommendation |-> Str("sea"),
        recommendationReason |-> Text(OnlySea, << >>)]
  ELSE IF air # Null /\ sea = Null
  THEN [recommendation |-> Str("air"),
        recommendationReason |-> Text(OnlyAir, << >>)]
  ELSE IF air # Null /\ sea # Null /\ deliveryRequiredDate # Null
  THEN IF MeetsDeadline(sea, deliveryRequiredDate)
       THEN LET bufferDays == CeilDays(deliveryRequiredDate, sea.eta)
            IN IF GreaterEq(bufferDays, Num(SafeBufferDays))
               THEN [recommendation |-> Str("sea"),
                     recommendationReason |->
                       Text(ArrivesBefore,
                            <<bufferDays, pct, ToLocaleString(savings)>>)]
               ELSE IF GreaterEq(bufferDays, Num(0))
               THEN [recommendation |-> Str("sea"),
                     recommendationReason |->
                       Text(MinimalBuffer, <<bufferDays>>)]
               ELSE NoRecommendation
       ELSE [recommendation |-> Str("air"),
             recommendationReason |-> Text(MissesDeadline, << >>)]
  ELSE NoRecommendation

\* availableDays > 25 in the place of availableDays >= 25
HighFlexibilityDaysExclusive == 25 + 1

HighFlexibilityDays == 25

MediumFlexibilityDays == 14

calculateTimelineFlexibility(cargoReadyDate, deliveryRequiredDate) ==
  IF cargoReadyDate = Null \/ deliveryRequiredDate = Null
  THEN [flexibility |-> "low", availableDays |-> Null]
  ELSE LET availableDays == CeilDays(deliveryRequiredDate, cargoReadyDate)
       IN [flexibility |->
             IF GreaterEq(availableDays, Num(HighFlexibilityDays)) THEN "high"
             ELSE IF GreaterEq(availableDays, Num(MediumFlexibilityDays))
             THEN "medium"
             ELSE "low",
           availableDays |-> availableDays]

\* the double nearest to 0.15 is 0x13333333333333 * 2^-55
FifteenPercent ==
  DFin(FALSE,
       <<1>> \o [i \in 1..(MantissaBits - 1) |->
                   IF (i - 1) % 4 \in {2, 3} THEN 1 ELSE 0],
       -55)

DaysPerYear == 365

\* a number is truthy unless it is 0 or NaN; null is not
Truthy(x) == x.t = "num" /\ x.v # 0

\* value_usd ? Math.round((value_usd * 0.15) / 365) : null
dailyCarryingCost(value_usd) ==
  IF Truthy(value_usd)
  THEN MathRound(DoubleDiv(DoubleMul(FifteenPercent, value_usd.v), DaysPerYear))
  ELSE Null

Unknown == "Unknown"

\* quote.forwarder.short_code, without the fallback
ForwarderLabelCodeOnly(quote) ==
  IF quote.forwarder # Null THEN quote.forwarder.short_code ELSE "undefined"

\* quote.forwarder?.short_code || 'Unknown'
ForwarderLabel(quote) ==
  IF quote.forwarder # Null /\ quote.forwarder.short_code # ""
  THEN quote.forwarder.short_code
  ELSE Unknown

mapQuoteToChartData(quote) ==
  [forwarder |-> ForwarderLabel(quote),
   transitDays |-> quote.transit_days,
   cost |-> quote.total_amount,
   eta |-> quote.eta]

\* partition.map(mapQuoteToChartData)
MapToChartData(s) == [i \in 1..Len(s) |-> mapQuoteToChartData(s[i])]

(***************************************************************************)
(* GET /api/requests/:id/analysis                                          *)
(***************************************************************************)
ErrorResponse(code) == [status |-> code]

\* quotes.length > 2 in the place of quotes.length >= 2
isReliableMoreThanTwo(qs) ==
  Len(qs) > 2 /\ (Len(airQuotes(qs)) > 0 \/ Len(seaQuotes(qs)) > 0)

isReliable(qs) ==
  Len(qs) >= 2 /\ (Len(airQuotes(qs)) > 0 \/ Len(seaQuotes(qs)) > 0)

AnalysisResponse(req, qs) ==
  LET air     == bestAir(qs)
      sea     == bestSea(qs)
      savings == potentialSavings(air, sea)
      pct     == savingsPercentage(air, sea)
      rec     == calculateRecommendation(air, sea, req.delivery_required_date,
                                         pct, savings)
      flex    == calculateTimelineFlexibility(req.cargo_ready_date,
                                              req.delivery_required_date)
      airQ    == airQuotes(qs)
      seaQ    == seaQuotes(qs)
  IN [status |-> 200,
      air_quotes |-> airQ,
      sea_quotes |-> seaQ,
      best_air |-> air,
      best_sea |-> sea,
      potential_savings |-> JSONNumber(savings),
      recommendation |-> rec.recommendation,
      recommendation_reason |-> rec.recommendationReason,
      analysis |-> [quotes_analyzed |-> Len(qs),
                    is_reliable |-> isReliable(qs)],
      factors |-> [timeline_flexibility |-> flex.flexibility,
                   daily_carrying_cost |->
                     JSONNumber(dailyCarryingCost(req.value_usd)),
                   available_days |-> JSONNumber(flex.availableDays),
                   savings_percentage |-> JSONNumber(pct)],
      chart_data |-> [air |-> MapToChartData(airQ),
                      sea |-> MapToChartData(seaQ)]]

\* the select without .eq('user_id', user.id)
SelectRequestOfAnyUser(user) == shipmentRequest

\* from('requests').select(...).eq('id', params.id).eq('user_id', user.id)
\* .single(): the row, or none
SelectRequest(user) ==
  IF shipmentRequest # Null /\ shipmentRequest.user_id = user
  THEN shipmentRequest
  ELSE Null

\* 401 before anything is read; one select of the request with its quotes;
\* 404 when it answers no row
GET_analysis(user) ==
  /\ response = Null
  /\ caller' = user
  /\ IF user \notin Users
     THEN /\ response' = ErrorResponse(401)
          /\ UNCHANGED <<selects, loaded>>
     ELSE /\ selects' = selects + 1
          /\ IF SelectRequest(user) = Null
             THEN /\ response' = ErrorResponse(404)
                  /\ UNCHANGED loaded
             ELSE /\ response' = AnalysisResponse(SelectRequest(user), quotes)
                  /\ loaded' = [before |-> quotes,
                                after |-> PartitionAndSort(quotes).quotes]
  /\ UNCHANGED <<shipmentRequest, quotes, page, calls, userForwarders>>

(***************************************************************************)
(* The quote-comparison page, which loads the analysis of a request        *)
(***************************************************************************)
\* reading a property that an object does not have gives undefined
Undefined == [t |-> "undefined"]

Prop(obj, name) == IF name \in DOMAIN obj THEN obj[name] ELSE Undefined

\* useState<AnalysisData | null>(null) and useState(true)
PageLoading == [data |-> Null, loading |-> TRUE]

\* response.ok
Ok(res) == res.status >= 200 /\ res.status <= 299

\* response.json(): the payload, which does not hold the status code
Json(res) == [f \in DOMAIN res \ {"status"} |-> res[f]]

\* the names that the page declares under the analysis object of its data
AnalysisData ==
  {"best_air", "best_sea", "potential_savings", "savings_percentage",
   "recommendation", "recommendation_reason"}

\* const { request, analysis, factors, air_quotes, sea_quotes } = data, and
\* what analysis.<name> reads for each name
PageAnalysis(data) ==
  [name \in AnalysisData |-> Prop(data.analysis, name)]

\* {analysis.recommendation && (...)}: the banner with the recommended mode
\* and its reason, Null when nothing is rendered
RecommendationBanner(data) ==
  LET analysis == PageAnalysis(data)
  IN IF analysis.recommendation \in {Null, Undefined}
     THEN Null
     ELSE [recommended |-> IF analysis.recommendation = Str("sea")
                           THEN "Sea Freight" ELSE "Air Freight",
           reason |-> analysis.recommendation_reason]

\* loadData: the answer of the fetch is kept when it is ok, and the page
\* stops loading in both cases
QuotesPage_loadData ==
  /\ page.loading
  /\ response # Null
  /\ page' = [data |-> IF Ok(response) THEN Json(response) ELSE Null,
              loading |-> FALSE]
  /\ UNCHANGED <<caller, shipmentRequest, quotes, response, selects, loaded,
                 calls, userForwarders>>

(***************************************************************************)
(* Calls of the handlers that write.  A handler runs up to its next query  *)
(* in one step; a call that has queries left is kept in calls between its  *)
(* steps, and the calls of different clients interleave.                   *)
(***************************************************************************)
\* the number of calls in flight at one time
MaxCalls == 2

\* !x
Not(x) ==
  \/ x.t \in {"undefined", "null", "NaN"}
  \/ x.t = "num" /\ x.v = 0
  \/ x.t = "str" /\ x.s = ""

\* a property that is undefined is left out of the JSON sent to the data
\* source, and the column takes its default; NaN is sent as null
Column(x, default) ==
  IF x = Undefined THEN default ELSE IF x = NaN THEN Null ELSE x

\* NextResponse.json(..., { status }): the status code, kept with the
\* handler that answered and the body it was sent
Answer(op, body, code) == [op |-> op, body |-> body, status |-> code]

\* the rows of the forwarders table, by id
ForwarderIds == {"DHL", "MSK"}

(***************************************************************************)
(* POST /api/requests                                                      *)
(***************************************************************************)
CreateRequestInputs ==
  [origin_country : {Undefined, Str("CN")},
   dest_country : {Str("US")},
   cargo_type : {Str("electronics")},
   reference : {Str("R1")},
   weight_kg : {Num(5000)},
   value_usd : {Num(3650)},
   cargo_ready_date : {Date(5)},
   delivery_required_date : {Date(28)},
   mode_preference : {Undefined},
   special_instructions : {Undefined}]

\* the row that the insert makes of the body
NewRequest(user, body) ==
  [user_id |-> user,
   reference |-> Column(body.reference, Null),
   status |-> Str("pending_quotes"),
   origin_country |-> Column(body.origin_country, Null),
   dest_country |-> Column(body.dest_country, Null),
   cargo_type |-> Column(body.cargo_type, Null),
   cargo_description |-> Null,
   weight_kg |-> Column(body.weight_kg, Null),
   value_usd |-> Column(body.value_usd, Null),
   cargo_ready_date |-> Column(body.cargo_ready_date, Null),
   delivery_required_date |-> Column(body.delivery_required_date, Null),
   mode_preference |-> Column(body.mode_preference, Str("any")),
   special_instructions |-> Column(body.special_instructions, Null)]

\* the request of the model is the one that the insert gives the id of the
\* other handlers' calls
POST_requests(user, body) ==
  /\ shipmentRequest = Null
  /\ caller' = user
  /\ IF user \notin Users
     THEN /\ response' = Answer("POST requests", body, 401)
          /\ UNCHANGED shipmentRequest
     ELSE IF Not(body.origin_country) \/ Not(body.dest_country)
               \/ Not(body.cargo_type)
     THEN /\ response' = Answer("POST requests", body, 400)
          /\ UNCHANGED shipmentRequest
     ELSE /\ shipmentRequest' = NewRequest(user, body)
          /\ response' = Answer("POST requests", body, 201)
  /\ UNCHANGED <<quotes, selects, loaded, page, calls, userForwarders>>

(***************************************************************************)
(* PATCH /api/requests/:id                                                 *)
(***************************************************************************)
\* allowedFields with value_usd among them
allowedFieldsWithValue ==
  {"status", "reference", "special_instructions", "cargo_description",
   "mode_preference", "value_usd"}

allowedFields ==
  {"status", "reference", "special_instructions", "cargo_description",
   "mode_preference"}

\* the fields that a body of the model may name
PatchFields ==
  allowedFields \cup
    {"user_id", "value_usd", "delivery_required_date", "origin_country",
     "weight_kg"}

EmptyBody == [f \in PatchFields |-> Undefined]

\* a body that names fields of both kinds
MixedBody ==
  [EmptyBody EXCEPT !.status = Str("booked"),
                    !.reference = Str("R2"),
                    !.special_instructions = Str("fragile"),
                    !.user_id = Str("u2"),
                    !.value_usd = Num(1),
                    !.delivery_required_date = Date(1),
                    !.origin_country = Str("DE"),
                    !.weight_kg = Num(1)]

PatchBodies ==
  {EmptyBody, MixedBody,
   [EmptyBody EXCEPT !.value_usd = Num(1)],
   [EmptyBody EXCEPT !.status = Str("pending_quotes")],
   [EmptyBody EXCEPT !.status = Str("shipped")]}

\* the values that the CHECK of requests.status admits
RequestStatuses ==
  {Null} \cup
    {Str(st) : st \in {"draft", "pending_quotes", "quotes_received",
                       "decision_pending", "booked", "cancelled"}}

\* the loop over allowedFields: the names of the fields of updates
Updates(body) == {f \in allowedFields : body[f] # Undefined}

\* update(updates) on a row
Updated(row, body) ==
  [f \in DOMAIN row |-> IF f \in Updates(body) THEN body[f] ELSE row[f]]

\* 401, then 400 when updates is empty, then one update of the row with the
\* id and the user_id: 404 when there is no such row, 500 when the data
\* source refuses the update, 200 otherwise
PATCH(user, body) ==
  /\ caller' = user
  /\ IF user \notin Users
     THEN /\ response' = Answer("PATCH", body, 401)
          /\ UNCHANGED shipmentRequest
     ELSE IF Updates(body) = {}
     THEN /\ response' = Answer("PATCH", body, 400)
          /\ UNCHANGED shipmentRequest
     ELSE IF SelectRequest(user) = Null
     THEN /\ response' = Answer("PATCH", body, 404)
          /\ UNCHANGED shipmentRequest
     ELSE IF Updated(shipmentRequest, body).status \notin RequestStatuses
     THEN /\ response' = Answer("PATCH", body, 500)
          /\ UNCHANGED shipmentRequest
     ELSE /\ shipmentRequest' = Updated(shipmentRequest, body)
          /\ response' = Answer("PATCH", body, 200)
  /\ UNCHANGED <<quotes, selects, loaded, page, calls, userForwarders>>

(***************************************************************************)
(* POST /api/requests/:id/quotes                                           *)
(***************************************************************************)
\* a sea quote of 3000 that leaves on day 10 and arrives on day 28
SeaQuoteBody ==
  [forwarder_id |-> Str("MSK"), mode |-> Str("sea"),
   total_amount |-> Num(3000), etd |-> Date(10), eta |-> Date(28),
   transit_days |-> Undefined]

FewQuoteBodies == {SeaQuoteBody}

\* the sea quote with one field after the other taken from the values that
\* a client may send, and transit_days with and without the two dates
QuoteBodies ==
  {[SeaQuoteBody EXCEPT !.forwarder_id = f]
     : f \in {Undefined, Str("MSK"), Str("XXX")}}
    \cup {[SeaQuoteBody EXCEPT !.mode = m]
            : m \in {Undefined, Str(""), Str("air"), Str("rail")}}
    \cup {[SeaQuoteBody EXCEPT !.total_amount = a]
            : a \in {Undefined, Num(-80), Num(0), Num(171)}}
    \cup {[SeaQuoteBody EXCEPT !.transit_days = d, !.etd = dates[1],
                               !.eta = dates[2]]
            : d \in {Undefined, Num(-3), Num(0), Num(18)},
              dates \in {<<Date(10), Date(28)>>, <<Date(28), Date(10)>>,
                         <<Undefined, Undefined>>}}

\* let transitDays = body.transit_days, and the days from etd to eta when
\* it is falsy and both dates are given
TransitDays(body) ==
  IF Not(body.transit_days) /\ ~Not(body.etd) /\ ~Not(body.eta)
  THEN CeilDays(body.eta, body.etd)
  ELSE body.transit_days

\* the row that the insert makes of the body, with the forwarder it joins
NewQuote(body) ==
  [mode |-> body.mode.s,
   total_amount |-> body.total_amount.v,
   etd |-> Column(body.etd, Null),
   eta |-> Column(body.eta, Null),
   status |-> "active",
   forwarder |-> Forwarder(body.forwarder_id.s),
   transit_days |-> Column(TransitDays(body), Null)]

\* the calls of the handler that have the given query next
At(pc) == {call \in BagToSet(calls) : call.pc = pc}

\* 401; the select of id and status of the request for its owner, and 404;
\* 400 for a body without forwarder_id, mode or total_amount, or with a
\* mode other than 'air' and 'sea'
POST_quotes_select(user, body) ==
  /\ IF user \notin Users
     THEN /\ response' = Answer("POST quotes", body, 401)
          /\ caller' = user
          /\ UNCHANGED calls
     ELSE IF SelectRequest(user) = Null
     THEN /\ response' = Answer("POST quotes", body, 404)
          /\ caller' = user
          /\ UNCHANGED calls
     ELSE IF Not(body.forwarder_id) \/ Not(body.mode) \/ Not(body.total_amount)
     THEN /\ response' = Answer("POST quotes", body, 400)
          /\ caller' = user
          /\ UNCHANGED calls
     ELSE IF body.mode # Str("air") /\ body.mode # Str("sea")
     THEN /\ response' = Answer("POST quotes", body, 400)
          /\ caller' = user
          /\ UNCHANGED calls
     ELSE /\ BagCardinality(calls) < MaxCalls
          /\ Len(quotes) + BagCardinality(calls) < MaxQuotes
          /\ calls' = calls (+) SetToBag({[pc |-> "insert",
                                           user |-> user,
                                           body |-> body,
                                           requestData |->
                                             [status |-> shipmentRequest.status],
                                           newQuote |-> Null]})
          /\ UNCHANGED <<caller, response>>
  /\ UNCHANGED <<shipmentRequest, quotes, selects, loaded, page,
                 userForwarders>>

\* the insert of the quote: 500 when the data source refuses it, as it
\* does for a forwarder_id that is no row of forwarders
POST_quotes_insert(call) ==
  /\ call \in At("insert")
  /\ IF call.body.forwarder_id.s \notin ForwarderIds
     THEN /\ calls' = calls (-) SetToBag({call})
          /\ caller' = call.user
          /\ response' = Answer("POST quotes", call.body, 500)
          /\ UNCHANGED quotes
     ELSE /\ quotes' = Append(quotes, NewQuote(call.body))
          /\ calls' = (calls (-) SetToBag({call}))
                        (+) SetToBag({[call EXCEPT !.pc = "update",
                                                   !.newQuote = Len(quotes) + 1]})
          /\ UNCHANGED <<caller, response>>
  /\ UNCHANGED <<shipmentRequest, selects, loaded, page, userForwarders>>

\* if (requestData.status === 'pending_quotes') the status of the request
\* with the id becomes 'quotes_received'; then 201
POST_quotes_update(call) ==
  /\ call \in At("update")
  /\ IF call.requestData.status = Str("pending_quotes")
     THEN shipmentRequest' =
            [shipmentRequest EXCEPT !.status = Str("quotes_received")]
     ELSE UNCHANGED shipmentRequest
  /\ calls' = calls (-) SetToBag({call})
  /\ caller' = call.user
  /\ response' = Answer("POST quotes", call.body, 201)
  /\ UNCHANGED <<quotes, selects, loaded, page, userForwarders>>

(***************************************************************************)
(* POST /api/user/forwarders                                               *)
(***************************************************************************)
\* a body without forwarder_id, with the id of a forwarder, and with an id
\* that no forwarder has
UserForwarderBodies ==
  [forwarder_id : {Undefined, Str("DHL"), Str("MSK"), Str("XXX")}]

\* the row that the insert makes of the body
NewUserForwarder(user, body) ==
  [user_id |-> user, forwarder_id |-> body.forwarder_id.s]

\* a table that refuses a row only when it is the same as its last row
RefusedAfterItself(row) ==
  userForwarders # << >> /\ userForwarders[Len(userForwarders)] = row

\* UNIQUE(user_id, forwarder_id): the insert of the row is refused with the
\* code 23505
Refused(row) == \E i \in 1..Len(userForwarders) : userForwarders[i] = row

\* 401; 400 without forwarder_id; the select of the forwarder, and 404
\* when there is none
POST_userForwarders_select(user, body) ==
  /\ IF user \notin Users
     THEN /\ response' = Answer("POST user forwarders", body, 401)
          /\ caller' = user
          /\ UNCHANGED calls
     ELSE IF Not(body.forwarder_id)
     THEN /\ response' = Answer("POST user forwarders", body, 400)
          /\ caller' = user
          /\ UNCHANGED calls
     ELSE IF body.forwarder_id.s \notin ForwarderIds
     THEN /\ response' = Answer("POST user forwarders", body, 404)
          /\ caller' = user
          /\ UNCHANGED calls
     ELSE /\ BagCardinality(calls) < MaxCalls
          /\ calls' = calls (+) SetToBag({[pc |-> "insert user forwarder",
                                           user |-> user,
                                           body |-> body]})
          /\ UNCHANGED <<caller, response>>
  /\ UNCHANGED <<shipmentRequest, quotes, selects, loaded, page,
                 userForwarders>>

\* the insert of the row: 409 when the table refuses it, 201 otherwise
POST_userForwarders_insert(call) ==
  /\ call \in At("insert user forwarder")
  /\ calls' = calls (-) SetToBag({call})
  /\ caller' = call.user
  /\ IF Refused(NewUserForwarder(call.user, call.body))
     THEN /\ response' = Answer("POST user forwarders", call.body, 409)
          /\ UNCHANGED userForwarders
     ELSE /\ userForwarders' =
               Append(userForwarders, NewUserForwarder(call.user, call.body))
          /\ response' = Answer("POST user forwarders", call.body, 201)
  /\ UNCHANGED <<shipmentRequest, quotes, selects, loaded, page>>

\* no call in flight
NoCalls == EmptyBag

(***************************************************************************)
(* Specifications: a request with a list of quotes, analysed once.         *)
(* Spec has rows with calendar dates and amounts that are not negative,    *)
(* SpecStored every kind of row the tables admit, SpecUnchecked rows with  *)
(* a mode the CHECK of quotes.mode refuses.                                *)
(***************************************************************************)
InitWith(requestRows, quoteRows) ==
  /\ caller = "nobody"
  /\ \/ shipmentRequest \in requestRows /\ quotes \in ListsOf(quoteRows)
     \/ shipmentRequest = Null /\ quotes = << >>
  /\ response = Null
  /\ selects = 0
  /\ loaded = Null
  /\ page = PageLoading
  /\ calls = NoCalls
  /\ userForwarders = << >>

Init == InitWith(RequestRows, QuoteRows)

InitStored == InitWith(StoredRequestRows, StoredQuoteRows)

InitUnchecked == InitWith(UncheckedRequestRows, UncheckedQuoteRows)

InitFewRows == InitWith(FewRequestRows, FewQuoteRows)

Next == \E user \in Callers : GET_analysis(user)

Spec == Init /\ [][Next]_vars

SpecStored == InitStored /\ [][Next]_vars

SpecUnchecked == InitUnchecked /\ [][Next]_vars

SpecFewRows == InitFewRows /\ [][Next]_vars

\* the page loads the analysis of the request
NextPage == Next \/ QuotesPage_loadData

SpecPage == InitFewRows /\ [][NextPage]_vars

(***************************************************************************)
(* Specifications of the handlers that write: no request, no quote and no  *)
(* designated forwarder at the start.                                      *)
(***************************************************************************)
InitEmpty ==
  /\ caller = "nobody"
  /\ shipmentRequest = Null
  /\ quotes = << >>
  /\ response = Null
  /\ selects = 0
  /\ loaded = Null
  /\ page = PageLoading
  /\ calls = NoCalls
  /\ userForwarders = << >>

\* requests are created and patched while quotes are added to them
NextRequests ==
  \/ \E user \in Callers, body \in CreateRequestInputs : POST_requests(user, body)
  \/ \E user \in Callers, body \in PatchBodies : PATCH(user, body)
  \/ \E user \in Callers, body \in FewQuoteBodies : POST_quotes_select(user, body)
  \/ \E call \in BagToSet(calls) : POST_quotes_insert(call)
  \/ \E call \in BagToSet(calls) : POST_quotes_update(call)

SpecRequests == InitEmpty /\ [][NextRequests]_vars

\* the first quotes of a request, with every kind of body
NextQuotes ==
  \/ \E user \in Users, body \in CreateRequestInputs : POST_requests(user, body)
  \/ \E user \in Callers, body \in QuoteBodies :
       quotes = << >> /\ POST_quotes_select(user, body)
  \/ \E call \in BagToSet(calls) : POST_quotes_insert(call)
  \/ \E call \in BagToSet(calls) : POST_quotes_update(call)

SpecQuotes == InitEmpty /\ [][NextQuotes]_vars

\* users add forwarders to their lists
NextUserForwarders ==
  \/ \E user \in Callers, body \in UserForwarderBodies :
       POST_userForwarders_select(user, body)
  \/ \E call \in BagToSet(calls) : POST_userForwarders_insert(call)

SpecUserForwarders == InitEmpty /\ [][NextUserForwarders]_vars

(***************************************************************************)
(* Properties of the answer.  They are stated on the payload and on the    *)
(* rows that were read, not with the operators of the handler.             *)
(***************************************************************************)
Answered == response # Null /\ response.status = 200

ModeQuotes(mode) == {quotes[i] : i \in {j \in 1..Len(quotes) : quotes[j].mode = mode}}

IsCheapestOf(best, rows) ==
  IF rows = {} THEN best = Null
  ELSE best \in rows /\ \A q \in rows : best.total_amount <= q.total_amount

BothBest == response.best_air # Null /\ response.best_sea # Null

\* C1: best_air is null when the input has no air quote and otherwise an air
\* quote of the input that no air quote of the input undercuts; likewise
\* best_sea over the sea quotes.
C1_BestIsCheapest ==
  Answered =>
    /\ IsCheapestOf(response.best_air, ModeQuotes("air"))
    /\ IsCheapestOf(response.best_sea, ModeQuotes("sea"))

\* three air quotes delivered most expensive first, the cheapest one chosen
C1_Witness ==
  /\ Answered
  /\ Len(quotes) = 3
  /\ \A i \in 1..3 : quotes[i].mode = "air"
  /\ quotes[1].total_amount > quotes[2].total_amount
  /\ quotes[2].total_amount > quotes[3].total_amount
  /\ response.best_air = quotes[3]
  /\ response.best_sea = Null

\* C2: savings_percentage of the payload is null exactly when best_air is
\* null, or best_sea is null, or best_air.total_amount is 0; it is never NaN
\* or an infinity.
C2_PercentageNullIff ==
  Answered =>
    /\ response.factors.savings_percentage.t \in {"null", "num"}
    /\ response.factors.savings_percentage = Null
         <=> \/ response.best_air = Null
             \/ response.best_sea = Null
             \/ response.best_air.total_amount = 0

\* a free air quote against a sea quote that costs something: the division
\* by zero is answered with null
C2_Witness ==
  /\ Answered
  /\ BothBest
  /\ response.best_air.total_amount = 0
  /\ response.best_sea.total_amount > 0
  /\ response.factors.savings_percentage = Null

\* C3: potential_savings is non-null exactly when both best quotes exist,
\* and is then best_air.total_amount - best_sea.total_amount, signed.
C3_SavingsSigned ==
  Answered =>
    /\ response.potential_savings # Null
         <=> (ModeQuotes("air") # {} /\ ModeQuotes("sea") # {})
    /\ BothBest =>
         response.potential_savings
           = Num(response.best_air.total_amount - response.best_sea.total_amount)

\* the best sea quote costs more than the best air quote
C3_Witness ==
  /\ Answered
  /\ BothBest
  /\ response.best_air.total_amount = 200
  /\ response.best_sea.total_amount = 3000
  /\ response.potential_savings = Num(-2800)

\* the percentage 100 * num / den (den > 0) rounded to the nearest integer,
\* a half going away from zero
RoundHalfAwayFromZero(num, den) ==
  IF num >= 0 THEN (2 * num + den) \div (2 * den)
  ELSE -((2 * (-num) + den) \div (2 * den))

PercentageCase == Answered /\ BothBest /\ response.best_air.total_amount > 0

\* C4 as stated: with both best quotes and best_air.total_amount > 0,
\* savings_percentage is potential_savings / best_air.total_amount * 100
\* rounded to the nearest integer, halves away from zero.
C4_HalfAwayFromZero ==
  PercentageCase =>
    response.factors.savings_percentage
      = Num(RoundHalfAwayFromZero(
              100 * (response.best_air.total_amount
                       - response.best_sea.total_amount),
              response.best_air.total_amount))

\* C4 as amended: savings_percentage is an integer at most one half away
\* from the exact percentage 100 * potential_savings / best_air.total_amount,
\* so it is the nearest integer unless the exact percentage lies half-way
\* between two integers, where it is one of the two.
C4_NearestInteger ==
  PercentageCase =>
    /\ response.factors.savings_percentage.t = "num"
    /\ LET a == response.best_air.total_amount
           p == a - response.best_sea.total_amount
       IN Abs(2 * a * response.factors.savings_percentage.v - 200 * p) <= a

\* air 200 and sea 205 give -2.5, answered with -2
C4_Witness ==
  /\ PercentageCase
  /\ response.best_air.total_amount = 200
  /\ response.best_sea.total_amount = 205
  /\ response.factors.savings_percentage = Num(-2)

\* air 200 and sea 171 give 14.5, answered with 14: the double quotient
\* 0.145 lies below the exact one
C4_WitnessHalfDown ==
  /\ PercentageCase
  /\ response.best_air.total_amount = 200
  /\ response.best_sea.total_amount = 171
  /\ response.factors.savings_percentage = Num(14)

\* C5: with quotes of at most one mode the recommendation ignores the dates:
\* no quotes give null and null, sea quotes only give 'sea' with its text,
\* air quotes only give 'air' with its text; the recommendation is never
\* 'air' without air quotes and never 'sea' without sea quotes.
C5_SingleMode ==
  Answered =>
    LET noAir == ModeQuotes("air") = {}
        noSea == ModeQuotes("sea") = {}
    IN /\ (noAir /\ noSea) =>
            /\ response.recommendation = Null
            /\ response.recommendation_reason = Null
       /\ (noAir /\ ~noSea) =>
            /\ response.recommendation = Str("sea")
            /\ response.recommendation_reason
                 = Text("Only sea freight quotes available.", << >>)
       /\ (~noAir /\ noSea) =>
            /\ response.recommendation = Str("air")
            /\ response.recommendation_reason
                 = Text("Only air freight quotes available.", << >>)
       /\ noAir => response.recommendation # Str("air")
       /\ noSea => response.recommendation # Str("sea")

\* one sea quote that arrives after the deadline, and no air quote
C5_Witness ==
  /\ Answered
  /\ Len(quotes) = 1
  /\ quotes[1].mode = "sea"
  /\ quotes[1].eta = Date(28)
  /\ shipmentRequest.delivery_required_date = Date(27)
  /\ response.best_air = Null
  /\ response.recommendation = Str("sea")
  /\ response.recommendation_reason
       = Text("Only sea freight quotes available.", << >>)

\* both best quotes exist, a deadline is set and the best sea quote has an eta
DeadlineCase ==
  /\ Answered
  /\ BothBest
  /\ shipmentRequest.delivery_required_date # Null
  /\ response.best_sea.eta # Null

\* days from the eta of the best sea quote to the deadline
Buffer == shipmentRequest.delivery_required_date.day - response.best_sea.eta.day

\* C6: with both best quotes and the best sea quote arriving at least 3 days
\* before delivery_required_date, the recommendation is 'sea' and the reason
\* is the "arrives {buffer} days before deadline" text that carries the
\* buffer, the savings_percentage and the potential_savings of the answer.
C6_ArrivesBeforeDeadline ==
  (DeadlineCase /\ Buffer >= 3) =>
    /\ response.recommendation = Str("sea")
    /\ response.recommendation_reason
         = [t |-> "str",
            s |-> "Sea freight arrives {bufferDays} days before deadline with {savingsPercentage}% cost savings (${potentialSavings})",
            args |-> <<Num(Buffer),
                       response.factors.savings_percentage,
                       [t |-> "localeString", of |-> response.potential_savings]>>]

\* C7: with both best quotes and the best sea quote arriving on the deadline
\* or up to 2 days before it, the recommendation is 'sea' with the "minimal
\* buffer" text; the "days before deadline" text is used from 3 days on.
C7_MinimalBuffer ==
  (DeadlineCase /\ Buffer >= 0) =>
    /\ response.recommendation = Str("sea")
    /\ Buffer < 3 =>
         response.recommendation_reason
           = [t |-> "str",
              s |-> "Sea freight meets deadline with minimal buffer ({bufferDays} days). Consider air if timing is critical.",
              args |-> <<Num(Buffer)>>]
    /\ Buffer >= 3 =>
         response.recommendation_reason.s
           = "Sea freight arrives {bufferDays} days before deadline with {savingsPercentage}% cost savings (${potentialSavings})"

\* the best sea quote arrives exactly 2 days before the deadline
C7_Witness ==
  /\ DeadlineCase
  /\ shipmentRequest.delivery_required_date = Date(30)
  /\ response.best_sea.eta = Date(28)
  /\ response.recommendation = Str("sea")
  /\ response.recommendation_reason.args = <<Num(2)>>

\* C8: with both best quotes and a deadline, the recommendation is 'air'
\* with the "does not meet delivery deadline" text whenever the cheapest sea
\* quote has no eta or an eta after the deadline, whatever the other sea
\* quotes offer.
C8_MissedDeadline ==
  (/\ Answered
   /\ BothBest
   /\ shipmentRequest.delivery_required_date # Null
   /\ \/ response.best_sea.eta = Null
      \/ response.best_sea.eta.day > shipmentRequest.delivery_required_date.day)
  =>
    /\ response.recommendation = Str("air")
    /\ response.recommendation_reason
         = [t |-> "str",
            s |-> "Sea freight does not meet delivery deadline. Air freight required.",
            args |-> << >>]

\* the cheapest sea quote arrives a day late while a dearer one would arrive
\* two days early
C8_Witness ==
  /\ Answered
  /\ Len(quotes) = 3
  /\ shipmentRequest.delivery_required_date = Date(27)
  /\ quotes[1].mode = "sea" /\ quotes[1].total_amount = 3000
  /\ quotes[1].eta = Date(25)
  /\ quotes[2].mode = "air" /\ quotes[2].total_amount = 12000
  /\ quotes[3].mode = "sea" /\ quotes[3].total_amount = 171
  /\ quotes[3].eta = Date(28)
  /\ response.best_sea = quotes[3]
  /\ response.recommendation = Str("air")

\* C9: with both best quotes and no delivery_required_date, recommendation
\* and recommendation_reason are null whatever the amounts and the etas.
C9_NoDeadline ==
  (Answered /\ BothBest /\ shipmentRequest.delivery_required_date = Null) =>
    /\ response.recommendation = Null
    /\ response.recommendation_reason = Null

\* no deadline, a cheap sea quote with an eta and an air quote
C9_Witness ==
  /\ Answered
  /\ BothBest
  /\ shipmentRequest.delivery_required_date = Null
  /\ response.best_sea.eta = Date(25)
  /\ response.best_sea.total_amount < response.best_air.total_amount
  /\ response.recommendation = Null

\* C10: the timeline flexibility is a function of the two dates of the
\* request alone: 'low' with available_days null when one of them is
\* missing, otherwise available_days is the number of days from
\* cargo_ready_date to delivery_required_date and the flexibility is 'high'
\* from 25 days, 'medium' from 14 to 24 days and 'low' below 14 days.
C10_TimelineFlexibility ==
  Answered =>
    LET ready    == shipmentRequest.cargo_ready_date
        required == shipmentRequest.delivery_required_date
    IN IF ready = Null \/ required = Null
       THEN /\ response.factors.timeline_flexibility = "low"
            /\ response.factors.available_days = Null
       ELSE LET days == required.day - ready.day
            IN /\ response.factors.available_days = Num(days)
               /\ days >= 25 => response.factors.timeline_flexibility = "high"
               /\ (days >= 14 /\ days < 25) =>
                    response.factors.timeline_flexibility = "medium"
               /\ days < 14 => response.factors.timeline_flexibility = "low"

\* no quotes at all and exactly 25 days between the two dates
C10_Witness ==
  /\ Answered
  /\ quotes = << >>
  /\ shipmentRequest.cargo_ready_date = Date(5)
  /\ shipmentRequest.delivery_required_date = Date(30)
  /\ response.factors.available_days = Num(25)
  /\ response.factors.timeline_flexibility = "high"

\* the cargo is ready after the delivery date: a negative number of days
C10_WitnessNegative ==
  /\ Answered
  /\ Len(quotes) > 0
  /\ response.factors.available_days = Num(-1)
  /\ response.factors.timeline_flexibility = "low"

\* C11: is_reliable is true exactly when at least 2 quotes were passed in
\* and at least one of them is an air or a sea quote; it is false for every
\* input with fewer than 2 quotes.
C11_IsReliable ==
  Answered =>
    /\ response.analysis.is_reliable
         <=> /\ Len(quotes) >= 2
             /\ \E i \in 1..Len(quotes) : quotes[i].mode \in {"air", "sea"}
    /\ Len(quotes) < 2 => ~response.analysis.is_reliable

\* exactly two quotes, one of a mode that is not analysed and one sea quote
C11_Witness ==
  /\ Answered
  /\ Len(quotes) = 2
  /\ quotes[1].mode = "rail"
  /\ quotes[2].mode = "sea"
  /\ response.analysis.is_reliable

\* two quotes, neither an air nor a sea quote
C11_WitnessNoMode ==
  /\ Answered
  /\ Len(quotes) = 2
  /\ \A i \in 1..2 : quotes[i].mode = "rail"
  /\ ~response.analysis.is_reliable

\* value * 0.15 / 365 rounded to the nearest integer, computed on integers
RoundedCarryingCost(value) == (2 * 15 * value + 36500) \div (2 * 36500)

\* C12: daily_carrying_cost is null exactly when the request has no
\* value_usd; with a value_usd, 0 included, it is value_usd * 0.15 / 365
\* rounded to an integer, hence 0 for value_usd = 0.
C12_DailyCarryingCost ==
  Answered =>
    /\ response.factors.daily_carrying_cost = Null
         <=> shipmentRequest.value_usd = Null
    /\ shipmentRequest.value_usd # Null =>
         response.factors.daily_carrying_cost
           = Num(RoundedCarryingCost(shipmentRequest.value_usd.v))

\* a cargo value of 3650 costs one and a half a day, answered with 2
C12_ValuePresent ==
  /\ Answered
  /\ shipmentRequest.value_usd = Num(3650)
  /\ response.factors.daily_carrying_cost = Num(2)

\* the caller owns the request and has an answer
OwnerAnswered ==
  /\ response # Null
  /\ shipmentRequest # Null
  /\ caller = shipmentRequest.user_id

\* a value that is present and is not a calendar date
Malformed(d) == d # Null /\ d.t # "date"

\* a validation failure that names the offending field
ValidationError(field) ==
  [status |-> 400, error |-> "ValidationError", field |-> field]

\* the date fields of the analysis that hold a malformed value
MalformedDateFields ==
  {f \in {"cargo_ready_date", "delivery_required_date"} :
     Malformed(shipmentRequest[f])}
    \cup (IF /\ Answered
             /\ response.best_sea # Null
             /\ Malformed(response.best_sea.eta)
          THEN {"eta"} ELSE {})

\* C13: a delivery_required_date, a cargo_ready_date or an eta of the best
\* sea quote that is present and is not a calendar date ends the analysis
\* in a validation error naming that field; no recommendation and no
\* available_days is made from it.
C13_MalformedDate ==
  (OwnerAnswered /\ MalformedDateFields # {}) =>
    \E f \in MalformedDateFields : response = ValidationError(f)

\* what the handler makes of the deadline 'infinity': status 200, the sea
\* quote that arrives on day 25 is said to miss the deadline, the timeline
\* is 'low' with available_days null
C13_SilentlyAccepted ==
  /\ Answered
  /\ shipmentRequest.delivery_required_date = DateInfinity
  /\ shipmentRequest.cargo_ready_date = Date(5)
  /\ response.best_air # Null
  /\ response.best_sea # Null
  /\ response.best_sea.eta = Date(25)
  /\ response.recommendation = Str("air")
  /\ response.factors.timeline_flexibility = "low"
  /\ response.factors.available_days = Null

\* C14: a quote with a negative total_amount among the quotes analysed is
\* reported as a validation failure that names total_amount, and is never
\* a best quote nor part of potential_savings or savings_percentage.
C14_NegativeAmount ==
  /\ (OwnerAnswered /\ \E i \in 1..Len(quotes) : quotes[i].total_amount < 0)
       => response = ValidationError("total_amount")
  /\ Answered =>
       /\ response.best_air # Null => response.best_air.total_amount >= 0
       /\ response.best_sea # Null => response.best_sea.total_amount >= 0

\* what the handler makes of a sea quote of -80 next to an air quote of 200:
\* the negative quote is the best sea quote, the savings are 280 and 140%
C14_SilentlyAccepted ==
  /\ Answered
  /\ response.best_air # Null
  /\ response.best_air.total_amount = 200
  /\ response.best_sea # Null
  /\ response.best_sea.total_amount = -80
  /\ response.potential_savings = Num(280)
  /\ response.factors.savings_percentage = Num(140)

\* the elements of a sequence
Range(s) == {s[i] : i \in 1..Len(s)}

\* C15: the partitions depend on the mode only: every air quote of the
\* input is in air_quotes and every sea quote in sea_quotes whatever its
\* status; a quote of another mode is in neither partition, adds no point to
\* a chart series and is no best quote; the analysis still answers.
C15_PartitionByMode ==
  /\ OwnerAnswered => Answered
  /\ Answered =>
       /\ Range(response.air_quotes) = ModeQuotes("air")
       /\ Range(response.sea_quotes) = ModeQuotes("sea")
       /\ Len(response.air_quotes) = Cardinality(ModeQuotes("air"))
       /\ Len(response.sea_quotes) = Cardinality(ModeQuotes("sea"))
       /\ Len(response.chart_data.air) = Cardinality(ModeQuotes("air"))
       /\ Len(response.chart_data.sea) = Cardinality(ModeQuotes("sea"))
       /\ response.best_air # Null => response.best_air.mode = "air"
       /\ response.best_sea # Null => response.best_sea.mode = "sea"

\* the cheapest quote is of a third mode, the only sea quote has expired
C15_Witness ==
  /\ Answered
  /\ Len(quotes) = 3
  /\ quotes[1].mode = "rail" /\ quotes[1].total_amount = 100
  /\ quotes[2].mode = "sea" /\ quotes[2].total_amount = 200
  /\ quotes[2].status = "expired"
  /\ quotes[3].mode = "air" /\ quotes[3].total_amount = 200
  /\ response.sea_quotes = <<quotes[2]>>
  /\ response.air_quotes = <<quotes[3]>>
  /\ response.best_sea = quotes[2]
  /\ Len(response.chart_data.sea) = 1
  /\ Len(response.chart_data.air) = 1

\* the chart series of a partition: a point per quote, in the same order
IsSeriesOf(series, partition) ==
  /\ Len(series) = Len(partition)
  /\ \A i \in 1..Len(partition) :
       /\ series[i].cost = partition[i].total_amount
       /\ series[i].transitDays = partition[i].transit_days
       /\ series[i].eta = partition[i].eta
       /\ partition[i].forwarder = Null => series[i].forwarder = "Unknown"
  /\ \A i, j \in 1..Len(series) : i < j => series[i].cost <= series[j].cost

\* C16: each chart series has one point per quote of its mode, in ascending
\* order of cost and in the order of the sorted partition, so that its
\* first point is the best quote; a point carries the cost, transit_days
\* and eta of its quote, and the label "Unknown" for a quote without
\* forwarder.
C16_ChartSeries ==
  Answered =>
    /\ IsSeriesOf(response.chart_data.air, response.air_quotes)
    /\ IsSeriesOf(response.chart_data.sea, response.sea_quotes)
    /\ Len(response.chart_data.air) = Cardinality(ModeQuotes("air"))
    /\ Len(response.chart_data.sea) = Cardinality(ModeQuotes("sea"))
    /\ response.best_air # Null =>
         response.chart_data.air[1].cost = response.best_air.total_amount
    /\ response.best_sea # Null =>
         response.chart_data.sea[1].cost = response.best_sea.total_amount

\* two sea quotes delivered dearest first; the cheaper one has no forwarder
C16_Witness ==
  /\ Answered
  /\ Len(quotes) = 2
  /\ quotes[1].mode = "sea" /\ quotes[1].total_amount = 300
  /\ quotes[1].forwarder = Forwarder("MSK")
  /\ quotes[2].mode = "sea" /\ quotes[2].total_amount = 171
  /\ quotes[2].forwarder = Null /\ quotes[2].eta = Date(25)
  /\ response.chart_data.air = << >>
  /\ response.chart_data.sea
       = <<[forwarder |-> "Unknown", transitDays |-> Null, cost |-> 171,
            eta |-> Date(25)],
           [forwarder |-> "MSK", transitDays |-> Num(30), cost |-> 300,
            eta |-> Null]>>

\* C17: the analysis leaves its inputs as they were: after it the array of
\* quotes it was given holds the same quotes in the same order as before
\* (the sorting works on copies), and the request and the quotes are
\* unchanged.
C17_InputsUntouched ==
  [][(response' # Null /\ response'.status = 200) =>
       /\ loaded'.before = quotes
       /\ loaded'.after = quotes
       /\ shipmentRequest' = shipmentRequest
       /\ quotes' = quotes]_vars

\* two air quotes delivered dearest first: the partition of the answer is
\* in the other order, the array that was loaded is not
C17_Witness ==
  /\ Answered
  /\ Len(quotes) = 2
  /\ quotes[1].mode = "air" /\ quotes[2].mode = "air"
  /\ quotes[1].total_amount > quotes[2].total_amount
  /\ response.air_quotes = <<quotes[2], quotes[1]>>
  /\ loaded.after = quotes

\* C19: the endpoint answers 401 to a caller who is not signed in, before
\* it reads anything; 404 when there is no request with the given id that
\* the caller owns; otherwise 200 with the analysis.  No caller gets the
\* analysis of a request of another user, and quotes_analyzed is the number
\* of quotes loaded for the request.
C19_StatusCodes ==
  response # Null =>
    /\ caller = "anonymous" => (response = [status |-> 401] /\ selects = 0)
    /\ (/\ caller # "anonymous"
        /\ (shipmentRequest = Null \/ shipmentRequest.user_id # caller))
         => response = [status |-> 404]
    /\ (/\ caller # "anonymous"
        /\ shipmentRequest # Null
        /\ shipmentRequest.user_id = caller)
         => /\ response.status = 200
            /\ response.analysis.quotes_analyzed = Len(quotes)
    /\ response.status = 200 => shipmentRequest.user_id = caller

\* a signed-in user asks for the analysis of a request of another user
\* that has three quotes
C19_Witness ==
  /\ response = [status |-> 404]
  /\ caller = "u2"
  /\ shipmentRequest # Null
  /\ shipmentRequest.user_id = "u1"
  /\ Len(quotes) = 3
  /\ selects = 1

\* the request does not exist
C19_WitnessNoRequest ==
  /\ response = [status |-> 404]
  /\ caller = "u1"
  /\ shipmentRequest = Null

\* where a quote stands in the input
Position(q) == CHOOSE k \in 1..Len(quotes) : quotes[k] = q

\* quotes of equal amount stand in the partition as they stand in the input
KeepsInputOrder(partition) ==
  \A i, j \in 1..Len(partition) :
    (i < j /\ partition[i].total_amount = partition[j].total_amount)
      => Position(partition[i]) < Position(partition[j])

\* the best quote is the first quote of the input with its mode and amount
IsFirstOfItsAmount(best) ==
  best # Null =>
    \A k \in 1..Len(quotes) :
      (quotes[k].mode = best.mode /\ quotes[k].total_amount = best.total_amount)
        => Position(best) <= k

\* C20: the sort of each partition is stable: quotes of one mode with equal
\* total_amount keep the order they have in the input, so of several
\* quotes that tie for the lowest amount the first of the input is the best
\* quote.
C20_StableSort ==
  Answered =>
    /\ KeepsInputOrder(response.air_quotes)
    /\ KeepsInputOrder(response.sea_quotes)
    /\ IsFirstOfItsAmount(response.best_air)
    /\ IsFirstOfItsAmount(response.best_sea)

\* a dear sea quote, then two sea quotes that tie for the lowest amount
C20_Witness ==
  /\ Answered
  /\ Len(quotes) = 3
  /\ \A i \in 1..3 : quotes[i].mode = "sea"
  /\ quotes[1].total_amount = 3000
  /\ quotes[2].total_amount = 171 /\ quotes[2].eta = Date(28)
  /\ quotes[3].total_amount = 171 /\ quotes[3].eta = Date(25)
  /\ response.best_sea = quotes[2]
  /\ response.sea_quotes = <<quotes[2], quotes[3], quotes[1]>>

\* the orderings of the quotes that were loaded
Orderings ==
  {[i \in 1..Len(quotes) |-> quotes[p[i]]] : p \in Permutations(1..Len(quotes))}

\* no two quotes of one mode have the same total_amount
DistinctAmountsPerMode ==
  \A i, j \in 1..Len(quotes) :
    (i # j /\ quotes[i].mode = quotes[j].mode)
      => quotes[i].total_amount # quotes[j].total_amount

\* the fields of an answer that the order of the quotes must not change
OrderFree(r) ==
  <<r.best_air, r.best_sea, r.potential_savings, r.factors.savings_percentage,
    r.recommendation, r.recommendation_reason, r.chart_data.air,
    r.chart_data.sea>>

\* C21: the answer does not depend on the order in which the quotes are
\* delivered: when the amounts are pairwise distinct within each mode, every
\* ordering of the same quotes gives the same best quotes, savings,
\* percentage, recommendation, reason and chart series.
C21_OrderIndependent ==
  (Answered /\ DistinctAmountsPerMode) =>
    \A other \in Orderings :
      OrderFree(AnalysisResponse(shipmentRequest, other)) = OrderFree(response)

\* the dearer sea quote is delivered first, then the air quote, then the
\* cheaper sea quote
C21_Witness ==
  /\ Answered
  /\ Len(quotes) = 3
  /\ quotes[1].mode = "sea" /\ quotes[1].total_amount = 3000
  /\ quotes[1].eta = Date(28)
  /\ quotes[2].mode = "air" /\ quotes[2].total_amount = 200
  /\ quotes[3].mode = "sea" /\ quotes[3].total_amount = 171
  /\ quotes[3].eta = Date(25)
  /\ shipmentRequest.delivery_required_date = Date(27)
  /\ response.best_sea = quotes[3]
  /\ response.recommendation = Str("sea")
  /\ response.chart_data.sea[1].cost = 171

\* C27: with calendar dates the recommendation is null in exactly two
\* cases: there is neither an air nor a sea quote, or both modes are quoted
\* and the request has no delivery_required_date.  Otherwise it is 'air' or
\* 'sea'; the reason is null exactly when the recommendation is.
C27_NullRecommendation ==
  Answered =>
    LET noAir == ModeQuotes("air") = {}
        noSea == ModeQuotes("sea") = {}
    IN /\ response.recommendation = Null
            <=> \/ noAir /\ noSea
                \/ /\ ~noAir
                   /\ ~noSea
                   /\ shipmentRequest.delivery_required_date = Null
       /\ response.recommendation \in {Null, Str("air"), Str("sea")}
       /\ response.recommendation_reason = Null
            <=> response.recommendation = Null

\* both modes quoted and the best sea quote arrives on the day of the
\* deadline: a buffer of 0 days still recommends sea
C27_Witness ==
  /\ Answered
  /\ BothBest
  /\ shipmentRequest.delivery_required_date = Date(28)
  /\ response.best_sea.eta = Date(28)
  /\ response.recommendation = Str("sea")
  /\ response.recommendation_reason.args = <<Num(0)>>

\* the best sea quote has an eta on or before the deadline
SeaInTime ==
  /\ response.best_sea.eta # Null
  /\ response.best_sea.eta.day <= shipmentRequest.delivery_required_date.day

C29_WitnessLate ==
  /\ Answered
  /\ BothBest
  /\ shipmentRequest.delivery_required_date = Date(27)
  /\ response.best_sea.eta = Date(28)
  /\ response.potential_savings = Num(11829)
  /\ response.recommendation = Str("air")

\* what the handler produced for a name of the page's analysis object
Produced(name) ==
  IF name = "savings_percentage"
  THEN response.factors.savings_percentage
  ELSE response[name]

PageLoaded == ~page.loading /\ page.data # Null

\* C30: when the page has loaded a successful answer, each of
\* recommendation, recommendation_reason, best_air, best_sea,
\* potential_savings and savings_percentage that it reads under its analysis
\* object is the value the handler produced for that name.
C30_PageReadsPayload ==
  PageLoaded =>
    \A name \in AnalysisData : PageAnalysis(page.data)[name] = Produced(name)

\* the handler recommends sea with its reason, and the page renders no
\* banner: analysis.recommendation reads undefined
C30_NoBanner ==
  /\ PageLoaded
  /\ response.recommendation = Str("sea")
  /\ PageAnalysis(page.data).recommendation = Undefined
  /\ RecommendationBanner(page.data) = Null

(***************************************************************************)
(* Properties of the handlers that write                                   *)
(***************************************************************************)
\* C22: when the call that added the first quote of a request answers, the
\* status of the request is 'quotes_received', and when the call that added
\* a later quote answers, the status is what it was.
C22_FirstQuoteSetsStatus ==
  [][\A call \in BagToSet(calls) :
       POST_quotes_update(call) =>
         IF call.newQuote = 1
         THEN shipmentRequest'.status = Str("quotes_received")
         ELSE shipmentRequest'.status = shipmentRequest.status]_vars

\* the first quote of a request that was booked before: the call has
\* answered 201 and the status is still 'booked'
C22_FirstQuoteOfBooked ==
  /\ response = Answer("POST quotes", SeaQuoteBody, 201)
  /\ calls = NoCalls
  /\ Len(quotes) = 1
  /\ shipmentRequest.status = Str("booked")

\* a body whose mode is not 'air' or 'sea', or whose total_amount is negative
BadQuote(body) ==
  \/ body.mode \notin {Str("air"), Str("sea")}
  \/ body.total_amount.t = "num" /\ body.total_amount.v < 0

\* the caller of the last answered call owns the request
ByOwner == shipmentRequest # Null /\ caller = shipmentRequest.user_id

\* C23: every stored quote has the mode 'air' or 'sea' and a total_amount
\* that is not negative; a POST of the owner with another mode or a negative
\* total_amount is answered 400, and never gets as far as the insert.
C23_StoredQuoteValid ==
  /\ \A i \in 1..Len(quotes) :
       quotes[i].mode \in {"air", "sea"} /\ quotes[i].total_amount >= 0
  /\ \A call \in BagToSet(calls) : ~BadQuote(call.body)
  /\ (/\ response # Null
      /\ response.op = "POST quotes"
      /\ ByOwner
      /\ BadQuote(response.body)) => response.status = 400

\* a POST with the mode 'rail' was answered 400 and nothing is stored
C23_ModeRejected ==
  /\ response = Answer("POST quotes", [SeaQuoteBody EXCEPT !.mode = Str("rail")], 400)
  /\ ByOwner
  /\ quotes = << >>
  /\ calls = NoCalls

\* a POST with the total_amount -80 was answered 201 and the quote is stored
C23_NegativeStored ==
  /\ response = Answer("POST quotes",
                       [SeaQuoteBody EXCEPT !.total_amount = Num(-80)], 201)
  /\ Len(quotes) = 1
  /\ quotes[1].total_amount = -80

\* the quote that a call has inserted
Inserted(call) == quotes[call.newQuote]

\* C24: the transit_days of every stored quote is absent or a number that
\* is not negative; a transit_days in the body, 0 too, is stored as it is,
\* and without one and with both dates the days from etd to eta are stored.
C24_TransitDaysStored ==
  /\ \A i \in 1..Len(quotes) :
       \/ quotes[i].transit_days = Null
       \/ quotes[i].transit_days.t = "num" /\ quotes[i].transit_days.v >= 0
  /\ \A call \in At("update") :
       /\ call.body.transit_days.t = "num" =>
            Inserted(call).transit_days = call.body.transit_days
       /\ (/\ call.body.transit_days = Undefined
           /\ call.body.etd.t = "date"
           /\ call.body.eta.t = "date") =>
            Inserted(call).transit_days =
              Num(call.body.eta.day - call.body.etd.day)

\* transit_days 0 was sent with etd day 10 and eta day 28, and 18 is stored
C24_ZeroReplaced ==
  \E call \in At("update") :
    /\ call.body.transit_days = Num(0)
    /\ call.body.etd = Date(10)
    /\ call.body.eta = Date(28)
    /\ Inserted(call).transit_days = Num(18)

\* no transit_days was sent, eta is before etd, and -18 is stored
C24_NegativeComputed ==
  \E call \in At("update") :
    /\ call.body.transit_days = Undefined
    /\ call.body.etd = Date(28)
    /\ call.body.eta = Date(10)
    /\ Inserted(call).transit_days = Num(-18)

\* transit_days -3 was sent and is stored
C24_NegativeStored ==
  \E call \in At("update") :
    /\ call.body.transit_days = Num(-3)
    /\ Inserted(call).transit_days = Num(-3)

\* the five fields that a PATCH may change
FiveFields ==
  {"status", "reference", "special_instructions", "cargo_description",
   "mode_preference"}

NoneOfFive(body) == \A f \in FiveFields : body[f] = Undefined

\* the request exists and is the user's
Owned(user) == shipmentRequest # Null /\ shipmentRequest.user_id = user

\* what a step leaves as it is when it is a PATCH of the user with the body:
\* the quotes, every field of the request but the five, and the whole
\* request when it is not the user's or the body has none of the five
\* fields, which is answered 400
PatchFrame(user, body) ==
  /\ quotes' = quotes
  /\ shipmentRequest = Null => shipmentRequest' = Null
  /\ shipmentRequest # Null =>
       /\ DOMAIN shipmentRequest' = DOMAIN shipmentRequest
       /\ \A f \in DOMAIN shipmentRequest \ FiveFields :
            shipmentRequest'[f] = shipmentRequest[f]
  /\ ~Owned(user) => shipmentRequest' = shipmentRequest
  /\ (user \in Users /\ NoneOfFive(body)) =>
       response'.status = 400 /\ shipmentRequest' = shipmentRequest

C25_NotOwnedEmptyBody ==
  /\ response = Answer("PATCH", EmptyBody, 400)
  /\ shipmentRequest # Null
  /\ caller \in Users
  /\ caller # shipmentRequest.user_id

\* and with the status 'booked' in the body, 404
C25_NotOwnedRefused ==
  /\ response = Answer("PATCH", MixedBody, 404)
  /\ shipmentRequest # Null
  /\ caller \in Users
  /\ caller # shipmentRequest.user_id
  /\ shipmentRequest.status # Str("booked")

\* C28: the step in which a POST of a quote writes the status and answers
\* leaves a status other than 'pending_quotes' as it is, whatever was done
\* to the request between the steps of the call.
C28_OnlyOverPending ==
  [][\A call \in BagToSet(calls) :
       (POST_quotes_update(call)
          /\ shipmentRequest.status # Str("pending_quotes")) =>
         shipmentRequest'.status = shipmentRequest.status]_vars

\* a call that read 'pending_quotes' is about to write the status of a
\* request that has been booked since
C28_StaleStatus ==
  \E call \in At("update") :
    /\ call.requestData.status = Str("pending_quotes")
    /\ shipmentRequest.status = Str("booked")
    /\ response = Answer("PATCH", MixedBody, 200)

\* the rows of the list of a user that name the forwarder
Listed(user, forwarder_id) ==
  {i \in 1..Len(userForwarders) :
     /\ userForwarders[i].user_id = user
     /\ userForwarders[i].forwarder_id = forwarder_id}

\* each forwarder at most once in the list of a user, and no forwarder that
\* does not exist
ListsWellFormed ==
  \A i \in 1..Len(userForwarders) :
    /\ Cardinality(Listed(userForwarders[i].user_id,
                          userForwarders[i].forwarder_id)) = 1
    /\ userForwarders[i].forwarder_id \in {"DHL", "MSK"}

\* C26: in every interleaving of the calls of POST /api/user/forwarders,
\* the lists stay well formed; a call of a signed-in user without
\* forwarder_id is answered 400 and one with an unknown forwarder_id 404;
\* the insert of a forwarder that is in the user's list is answered 409;
\* and the list is the same after each of these answers.  Any other insert
\* adds the forwarder to the end of the list and is answered 201.
C26_DesignatedList ==
  [][/\ ListsWellFormed'
     /\ \A user \in Users, body \in UserForwarderBodies :
          POST_userForwarders_select(user, body) =>
            /\ userForwarders' = userForwarders
            /\ body.forwarder_id = Undefined => response'.status = 400
            /\ body.forwarder_id = Str("XXX") => response'.status = 404
     /\ \A call \in BagToSet(calls) :
          POST_userForwarders_insert(call) =>
            IF Listed(call.user, call.body.forwarder_id.s) # {}
            THEN response'.status = 409 /\ userForwarders' = userForwarders
            ELSE /\ response'.status = 201
                 /\ Len(userForwarders') = Len(userForwarders) + 1
                 /\ Listed(call.user, call.body.forwarder_id.s)' =
                      {Len(userForwarders')}]_vars

\* a call of u1 with the forwarder DHL is answered 409 while another one is
\* in flight: the list of u1 has DHL once
C26_Witness ==
  /\ response = Answer("POST user forwarders", [forwarder_id |-> Str("DHL")], 409)
  /\ caller = "u1"
  /\ userForwarders = <<[user_id |-> "u1", forwarder_id |-> "DHL"]>>
  /\ \E call \in BagToSet(calls) :
       call.user = "u1" /\ call.body.forwarder_id = Str("DHL")

\* both users have both forwarders in their lists
C26_WitnessFull ==
  /\ Len(userForwarders) = 4
  /\ ListsWellFormed

====
